---------------------------- MODULE Spec2Model ----------------------------
(***************************************************************************)
(* Paperify (src/Paperify/main.py): the exam editor (ExamGeneratorApp),    *)
(* its CSV persistence and its PDF layout (export_pdf).                    *)
(*                                                                         *)
(* A Python str is a sequence of code points (naturals).  Lengths on the   *)
(* page are in thousandths of an inch, so every length of export_pdf       *)
(* (8.27, 11.69, 0.5, 0.21, 8.27 / 2, ...) is an integer.                  *)
(***************************************************************************)
EXTENDS Integers, Sequences, FiniteSets, TLC

VARIABLES
    metadata,        \* self.metadata
    sections,        \* self.sections: list of section dicts
    tree,            \* self.tree: top-level items of the QTreeWidget
    editing_q_ptr,   \* self.editing_q_ptr: None or <<s_idx, q_idx>> (0-based)
    cb_sections,     \* self.cb_sections: [items, index] (index -1: none)
    disk,            \* the CSV file the file dialogs name: [exists, rows]
    HAS_URDU_LIB,    \* module global set by the import at line 23-29
    pc,              \* position inside export_pdf ("idle" outside of it)
    s_pos,           \* index of the section being laid out (1-based)
    q_pos,           \* index of the question being laid out (1-based)
    cursor_y,        \* cursor_y of export_pdf
    ax,              \* drawing primitives placed on the current page
    pdf,             \* PdfPages writer: [open, pages]
    call             \* the draw_text call in progress: <<>> or <<arguments>>

vars == <<metadata, sections, tree, editing_q_ptr, cb_sections, disk,
          HAS_URDU_LIB, pc, s_pos, q_pos, cursor_y, ax, pdf, call>>

\* Python's None where the other values are tuples
None == <<>>

---------------------------------------------------------------------------
(* Strings *)

NL == 10
PIPE == 124

S_META == <<77, 69, 84, 65>>
S_SEC == <<83, 69, 67>>
S_Q == <<81>>
T_MCQ == <<77, 67, 81>>
T_SHORT == <<83, 104, 111, 114, 116, 47, 76, 111, 110, 103, 32, 81, 117,
             101, 115, 116, 105, 111, 110>>
T_MATCH == <<77, 97, 116, 99, 104, 32, 67, 111, 108, 117, 109, 110, 115>>

IsSpace(c) == c \in {32, 10, 9, 13}

\* str.strip()
RECURSIVE strip(_)
strip(s) ==
    IF s = <<>> THEN s
    ELSE IF IsSpace(s[1]) THEN strip(Tail(s))
    ELSE IF IsSpace(s[Len(s)]) THEN strip(SubSeq(s, 1, Len(s) - 1))
    ELSE s

\* str.split(sep) for a one-character separator: "" gives [""]
RECURSIVE split(_, _)
split(s, sep) ==
    IF \A i \in 1..Len(s) : s[i] # sep THEN <<s>>
    ELSE LET k == CHOOSE i \in 1..Len(s) :
                      s[i] = sep /\ \A j \in 1..(i - 1) : s[j] # sep
         IN  <<SubSeq(s, 1, k - 1)>> \o split(SubSeq(s, k + 1, Len(s)), sep)

\* sep.join(list): [] gives ""
RECURSIVE join(_, _)
join(list, sep) ==
    IF list = <<>> THEN <<>>
    ELSE IF Len(list) = 1 THEN list[1]
    ELSE list[1] \o <<sep>> \o join(Tail(list), sep)

\* [x for x in list if x.strip()]
RECURSIVE non_blank(_)
non_blank(list) ==
    IF list = <<>> THEN <<>>
    ELSE IF strip(list[1]) # <<>> THEN <<list[1]>> \o non_blank(Tail(list))
    ELSE non_blank(Tail(list))

\* str(n) for an int, as csv.writer writes a non-string field
RECURSIVE digits(_)
digits(n) ==
    IF n < 10 THEN <<48 + n>>
    ELSE digits(n \div 10) \o <<48 + (n % 10)>>

str_int(n) == IF n < 0 THEN <<45>> \o digits(-n) ELSE digits(n)

IsDigit(c) == c >= 48 /\ c <= 57

RECURSIVE digits_value(_)
digits_value(s) ==
    IF s = <<>> THEN 0
    ELSE 10 * digits_value(SubSeq(s, 1, Len(s) - 1)) + (s[Len(s)] - 48)

\* int(s): [ok, value]; ok = FALSE stands for the ValueError.  Surrounding
\* white space and one sign are accepted, then ASCII digits only.
int_parse(s) ==
    LET t == strip(s)
        neg == t # <<>> /\ t[1] = 45
        body == IF t # <<>> /\ t[1] \in {45, 43} THEN Tail(t) ELSE t
    IN  IF body # <<>> /\ \A i \in 1..Len(body) : IsDigit(body[i])
        THEN [ok |-> TRUE,
              value |-> IF neg THEN -digits_value(body) ELSE digits_value(body)]
        ELSE [ok |-> FALSE, value |-> 0]

---------------------------------------------------------------------------
(* The document model.                                                    *)
(* A section dict is a record; its field id stands for the identity of    *)
(* the Python dict (two list slots holding one dict have one id), kept    *)
(* canonical: the position of the dict's first slot in self.sections.     *)
(* A question dict is a record [type, text, options, col_a, col_b]; a     *)
(* key the dict lacks reads as the default [] of q.get(key, []).          *)

Question(type, text, options, col_a, col_b) ==
    [type |-> type, text |-> text, options |-> options,
     col_a |-> col_a, col_b |-> col_b]

first_slot(secs, id) == CHOOSE j \in 1..Len(secs) :
    secs[j].id = id /\ \A k \in 1..(j - 1) : secs[k].id # id

canonical(secs) ==
    [k \in 1..Len(secs) |-> [secs[k] EXCEPT !.id = first_slot(secs, secs[k].id)]]

\* assignment d['questions'] = qs on the dict with identity id
set_questions(secs, id, qs) ==
    [k \in 1..Len(secs) |->
        IF secs[k].id = id THEN [secs[k] EXCEPT !.questions = qs] ELSE secs[k]]

\* save_data with the total taken from the label's default instead of the
\* two spin boxes
save_data_stale_total(inp_title, inp_desc, marks_per_q, attempt_count, qs) ==
    [ok |-> inp_title # <<>>,
     data |-> [name |-> inp_title, desc |-> inp_desc,
               marks_per_q |-> marks_per_q,
               attempt_count |-> attempt_count,
               total_marks |-> 10,
               questions |-> qs]]

\* SectionSetupDialog.save_data: [ok, data]; ok = FALSE when the title is
\* empty and the dialog is not accepted
save_data(inp_title, inp_desc, marks_per_q, attempt_count, qs) ==
    [ok |-> inp_title # <<>>,
     data |-> [name |-> inp_title, desc |-> inp_desc,
               marks_per_q |-> marks_per_q,
               attempt_count |-> attempt_count,
               total_marks |-> marks_per_q * attempt_count,
               questions |-> qs]]

\* QSpinBox.setValue on a spin box with setRange(1, 100)
spin_value(v) == IF v < 1 THEN 1 ELSE IF v > 100 THEN 100 ELSE v

---------------------------------------------------------------------------
(* CSV persistence.  A file is the list of rows csv.writer wrote and      *)
(* csv.reader returns; a row is a list of fields, each a str.             *)

question_row(q) ==
    <<S_Q, q.type, q.text>> \o
    (IF q.type = T_MCQ THEN q.options
     ELSE IF q.type = T_MATCH
          THEN <<join(q.col_a, PIPE), join(q.col_b, PIPE)>>
     ELSE <<>>)

RECURSIVE question_rows(_)
question_rows(qs) ==
    IF qs = <<>> THEN <<>>
    ELSE <<question_row(qs[1])>> \o question_rows(Tail(qs))

section_row(s) ==
    <<S_SEC, s.name, s.desc, str_int(s.marks_per_q), str_int(s.attempt_count)>>

RECURSIVE section_rows(_)
section_rows(secs) ==
    IF secs = <<>> THEN <<>>
    ELSE <<section_row(secs[1])>> \o question_rows(secs[1].questions)
         \o section_rows(Tail(secs))

\* the rows save_csv writes (lines 624-633)
csv_rows(md, secs) ==
    <<<<S_META, md.school, md.test, md.class, md.subject, md.time, md.marks>>>>
    \o section_rows(secs)

\* the SEC branch of load_csv (lines 651-657): [ok, sec]; ok = FALSE for the
\* IndexError of a short row and the ValueError of int()
load_section(row, id) ==
    IF Len(row) < 5 THEN [ok |-> FALSE]
    ELSE IF ~int_parse(row[4]).ok \/ ~int_parse(row[5]).ok THEN [ok |-> FALSE]
    ELSE [ok |-> TRUE,
          sec |-> [id |-> id, name |-> row[2], desc |-> row[3],
                   marks_per_q |-> int_parse(row[4]).value,
                   attempt_count |-> int_parse(row[5]).value,
                   total_marks |-> int_parse(row[4]).value
                                   * int_parse(row[5]).value,
                   questions |-> <<>>]]

\* the Q branch of load_csv (lines 658-664): [ok, q]; ok = FALSE for the
\* IndexError of a short row
load_question(row) ==
    IF Len(row) < 3 THEN [ok |-> FALSE]
    ELSE IF row[2] = T_MCQ
         THEN [ok |-> TRUE,
               q |-> Question(row[2], row[3], SubSeq(row, 4, Len(row)),
                              <<>>, <<>>)]
    ELSE IF row[2] = T_MATCH
         THEN IF Len(row) < 5 THEN [ok |-> FALSE]
              ELSE [ok |-> TRUE,
                    q |-> Question(row[2], row[3], <<>>,
                                   split(row[4], PIPE), split(row[5], PIPE))]
    ELSE [ok |-> TRUE, q |-> Question(row[2], row[3], <<>>, <<>>, <<>>)]

\* the loop of load_csv over the rows (lines 646-664), self.sections being
\* secs so far: [ok, sections]; ok = FALSE when a row raised, sections then
\* being what had been appended before it
RECURSIVE load_rows(_, _)
load_rows(rows, secs) ==
    IF rows = <<>> THEN [ok |-> TRUE, sections |-> secs]
    ELSE LET row == rows[1] IN
         IF row = <<>> THEN load_rows(Tail(rows), secs)
         ELSE IF row[1] = S_META THEN load_rows(Tail(rows), secs)
         ELSE IF row[1] = S_SEC
              THEN LET r == load_section(row, Len(secs) + 1) IN
                   IF ~r.ok THEN [ok |-> FALSE, sections |-> secs]
                   ELSE load_rows(Tail(rows), Append(secs, r.sec))
         ELSE IF row[1] = S_Q /\ secs # <<>>
              THEN LET r == load_question(row)
                       n == Len(secs) IN
                   IF ~r.ok THEN [ok |-> FALSE, sections |-> secs]
                   ELSE load_rows(Tail(rows),
                            [secs EXCEPT ![n].questions = Append(@, r.q)])
         ELSE load_rows(Tail(rows), secs)

---------------------------------------------------------------------------
(* The structure tree and the section selector.                           *)
(* A top-level item is [role, data, children]: for a "SECTION" item data  *)
(* is the stored index s_idx (Qt.UserRole+1, 0-based) and children are    *)
(* the question dicts of its child items; a question item dragged to the  *)
(* top level is a "QUESTION" item whose data is its question dict.        *)

remove_at(seq, i) == SubSeq(seq, 1, i - 1) \o SubSeq(seq, i + 1, Len(seq))

insert_at(seq, i, x) == SubSeq(seq, 1, i - 1) \o <<x>> \o SubSeq(seq, i, Len(seq))

currentText(cb) == IF cb.index = -1 THEN <<>> ELSE cb.items[cb.index + 1]

\* refresh_sections_combo: clear(), addItem() per section (the first item
\* added becomes current), then setCurrentText(curr), which selects the
\* first item equal to curr when there is one
refresh_sections_combo(cb, secs) ==
    LET curr == currentText(cb)
        items == [k \in 1..Len(secs) |-> secs[k].name]
        found == {k \in 1..Len(items) : items[k] = curr}
    IN  [items |-> items,
         index |-> IF found # {}
                   THEN (CHOOSE k \in found : \A j \in found : k <= j) - 1
                   ELSE IF items = <<>> THEN -1 ELSE 0]

rebuild_items(secs) ==
    [i \in 1..Len(secs) |->
        [role |-> "SECTION", data |-> i - 1, children |-> secs[i].questions]]

\* the loop of sync_tree_to_model (lines 453-481) from root child i on;
\* secs is self.sections, new the slots of secs appended to new_sections.
\* ok = FALSE is the IndexError of self.sections[s_idx]: self.sections is
\* then still the old list, with the dicts and items changed so far.
RECURSIVE sync_loop(_, _, _, _)
sync_loop(i, items, secs, new) ==
    IF i >= Len(items)
    THEN [ok |-> TRUE, tree |-> items,
          sections |-> canonical([k \in 1..Len(new) |-> secs[new[k]]])]
    ELSE LET sec_item == items[i + 1] IN
         IF sec_item.role # "SECTION" THEN sync_loop(i + 1, items, secs, new)
         ELSE LET s_idx == sec_item.data IN
              IF s_idx >= Len(secs)
              THEN [ok |-> FALSE, tree |-> items, sections |-> secs]
              ELSE sync_loop(i + 1,
                             [items EXCEPT ![i + 1].data = i],
                             set_questions(secs, secs[s_idx + 1].id,
                                           sec_item.children),
                             Append(new, s_idx + 1))

\* sync_tree_to_model: [ok, sections, tree, cb]
sync_tree_to_model(items, secs, cb) ==
    LET r == sync_loop(0, items, secs, <<>>) IN
    [ok |-> r.ok, sections |-> r.sections, tree |-> r.tree,
     cb |-> IF r.ok THEN refresh_sections_combo(cb, r.sections) ELSE cb]

---------------------------------------------------------------------------
(* Bounds and the inputs the user and the file system supply.             *)

MaxSections == 2
MaxQuestions == 1
MaxFileRows == 3

\* 'A', 'B', 'x', 'y', 'd'; U+0628 is a letter of the Urdu block
St_A == <<65>>
St_U == <<1576>>
St_x == <<120>>
St_y == <<121>>

Metadatas ==
    {[school |-> <<83>>, test |-> <<84>>, class |-> <<57>>,
      subject |-> <<80>>, time |-> <<49>>, marks |-> <<53, 48>>]}

\* what the user types into SectionSetupDialog
SecInputs ==
    {[name |-> St_A, desc |-> <<>>, marks_per_q |-> 2, attempt_count |-> 5],
     [name |-> St_U, desc |-> <<100>>, marks_per_q |-> 1, attempt_count |-> 100],
     [name |-> <<>>, desc |-> <<>>, marks_per_q |-> 2, attempt_count |-> 5]}

\* what the user types into the question editor
QForms ==
    {[q_type |-> T_SHORT, q_text |-> <<32, 97>>,
      opt_inputs |-> <<<<>>, <<>>, <<>>, <<>>>>, col_a |-> <<>>, col_b |-> <<>>],
     [q_type |-> T_MATCH, q_text |-> St_U,
      opt_inputs |-> <<<<>>, <<>>, <<>>, <<>>>>,
      col_a |-> <<120, 10, 32, 10, 121>>, col_b |-> <<>>],
     [q_type |-> T_SHORT, q_text |-> <<32, 10>>,
      opt_inputs |-> <<<<>>, <<>>, <<>>, <<>>>>, col_a |-> <<>>, col_b |-> <<>>]}

\* the forms of the persistence specification: the MCQ form, and a Match
\* Columns form whose column A holds an entry with a '|' in it
CsvQForms ==
    QForms \cup
    {[q_type |-> T_MCQ, q_text |-> <<97>>,
      opt_inputs |-> <<St_x, <<>>, St_y, <<>>>>, col_a |-> <<>>, col_b |-> <<>>],
     [q_type |-> T_MATCH, q_text |-> <<97>>,
      opt_inputs |-> <<<<>>, <<>>, <<>>, <<>>>>,
      col_a |-> <<120, 124, 121>>, col_b |-> <<120, 10, 121>>]}

\* Files that were not written by save_csv.
\* LegacyFile: written before attempt_count existed, its SEC record has
\* four fields (name, description, marks per question).
LegacyFile ==
    <<<<S_META, <<83>>>>,
      <<S_SEC, St_A, <<100>>, <<53>>>>,
      <<S_Q, T_SHORT, <<97>>>>>>

\* CorruptFile: its second SEC record has a non-numeric field.
CorruptFile ==
    <<<<S_SEC, St_A, <<>>, <<51>>, <<52>>>>,
      <<S_Q, T_SHORT, <<97>>>>,
      <<S_SEC, St_U, <<>>, <<120>>, <<49>>>>>>

ExternalFiles == {LegacyFile, CorruptFile}

with_id(data, id) ==
    [id |-> id, name |-> data.name, desc |-> data.desc,
     marks_per_q |-> data.marks_per_q, attempt_count |-> data.attempt_count,
     total_marks |-> data.total_marks, questions |-> data.questions]

\* existing_data.update(dlg.section_data) on the dict with identity id
update_section(secs, id, data) ==
    [k \in 1..Len(secs) |->
        IF secs[k].id = id THEN with_id(data, id) ELSE secs[k]]

PdfIdle == [open |-> FALSE, pages |-> <<>>]

\* the state after ExamGeneratorApp.__init__ (lines 201-216)
Init ==
    /\ metadata \in Metadatas
    /\ sections = <<>>
    /\ tree = <<>>
    /\ editing_q_ptr = None
    /\ cb_sections = [items |-> <<>>, index |-> -1]
    /\ disk = [exists |-> FALSE, rows |-> <<>>]
    /\ HAS_URDU_LIB = TRUE
    /\ pc = "idle"
    /\ s_pos = 0
    /\ q_pos = 0
    /\ cursor_y = 0
    /\ ax = <<>>
    /\ pdf = PdfIdle
    /\ call = <<>>

export_vars == <<pc, s_pos, q_pos, cursor_y, ax, pdf, call>>

---------------------------------------------------------------------------
(* Editor operations *)

\* the "+ Add New Section" button: open_section_dialog(None)
AddSection ==
    /\ pc = "idle"
    /\ Len(sections) < MaxSections
    /\ \E inp \in SecInputs :
         LET dlg == save_data(inp.name, inp.desc, inp.marks_per_q,
                              inp.attempt_count, <<>>)
             secs == Append(sections, with_id(dlg.data, Len(sections) + 1))
         IN  IF dlg.ok
             THEN /\ sections' = secs
                  /\ tree' = rebuild_items(secs)
                  /\ cb_sections' = refresh_sections_combo(cb_sections, secs)
             ELSE UNCHANGED <<sections, tree, cb_sections>>
    /\ UNCHANGED <<metadata, editing_q_ptr, disk, HAS_URDU_LIB, export_vars>>

\* "Edit Section Details" on a section item: edit_section_from_tree, then
\* open_section_dialog(existing_data); the dialog opens with the dict's
\* values and the user may overwrite them
EditSection ==
    /\ pc = "idle"
    /\ \E i \in 1..Len(tree) :
         /\ tree[i].role = "SECTION"
         /\ IF tree[i].data >= Len(sections)
            THEN UNCHANGED <<sections, tree, cb_sections>>
            ELSE LET existing_data == sections[tree[i].data + 1]
                     prefill == [name |-> existing_data.name,
                                 desc |-> existing_data.desc,
                                 marks_per_q |->
                                     spin_value(existing_data.marks_per_q),
                                 attempt_count |->
                                     spin_value(existing_data.attempt_count)]
                 IN  \E inp \in SecInputs \cup {prefill} :
                       LET dlg == save_data(inp.name, inp.desc,
                                            inp.marks_per_q, inp.attempt_count,
                                            existing_data.questions)
                           secs == update_section(sections, existing_data.id,
                                                  dlg.data)
                       IN  IF dlg.ok
                           THEN /\ sections' = secs
                                /\ tree' = rebuild_items(secs)
                                /\ cb_sections' =
                                     refresh_sections_combo(cb_sections, secs)
                           ELSE UNCHANGED <<sections, tree, cb_sections>>
    /\ UNCHANGED <<metadata, editing_q_ptr, disk, HAS_URDU_LIB, export_vars>>

\* the question dict save_question_input builds from the form (505-514)
form_question(f) ==
    Question(f.q_type, strip(f.q_text),
             IF f.q_type = T_MCQ THEN f.opt_inputs ELSE <<>>,
             IF f.q_type = T_MATCH THEN non_blank(split(f.col_a, NL)) ELSE <<>>,
             IF f.q_type = T_MATCH THEN non_blank(split(f.col_b, NL)) ELSE <<>>)

\* next((s for s in self.sections if s['name'] == sec_name), None):
\* the slot of the first such section, 0 for None
target_slot(secs, sec_name) ==
    LET found == {k \in 1..Len(secs) : secs[k].name = sec_name}
    IN  IF found = {} THEN 0 ELSE CHOOSE k \in found : \A j \in found : k <= j

\* save_question_input after its sync, on the synced state r: the new
\* [sections, done]; done = FALSE when the handler returned or raised
\* before rebuild_tree (empty text, IndexError, no section selected)
save_question(r, f, ptr) ==
    LET q == form_question(f)
        secs == r.sections
    IN  IF q.text = <<>> THEN [done |-> FALSE, sections |-> secs]
        ELSE IF ptr # None
        THEN LET s_idx == ptr[1]
                 q_idx == ptr[2]
             IN  IF s_idx >= Len(secs) THEN [done |-> FALSE, sections |-> secs]
                 ELSE IF q_idx >= Len(secs[s_idx + 1].questions)
                 THEN [done |-> FALSE, sections |-> secs]
                 ELSE [done |-> TRUE,
                       sections |->
                         set_questions(secs, secs[s_idx + 1].id,
                           [secs[s_idx + 1].questions EXCEPT ![q_idx + 1] = q])]
        ELSE LET t == target_slot(secs, currentText(r.cb))
             IN  IF t = 0 THEN [done |-> FALSE, sections |-> secs]
                 ELSE [done |-> TRUE,
                       sections |->
                         set_questions(secs, secs[t].id,
                                       Append(secs[t].questions, q))]

\* the "Add Question" / "Update Question" button, the form holding one of
\* forms
SaveQuestionInputFrom(forms) ==
    /\ pc = "idle"
    /\ \E f \in forms :
         LET r == sync_tree_to_model(tree, sections, cb_sections) IN
         IF ~r.ok
         THEN /\ sections' = r.sections
              /\ tree' = r.tree
              /\ cb_sections' = r.cb
              /\ UNCHANGED editing_q_ptr
         ELSE LET w == save_question(r, f, editing_q_ptr) IN
              /\ \A k \in 1..Len(w.sections) :
                    Len(w.sections[k].questions) <= MaxQuestions
              /\ sections' = w.sections
              /\ IF w.done
                 THEN /\ tree' = rebuild_items(w.sections)
                      /\ cb_sections' = refresh_sections_combo(r.cb, w.sections)
                      /\ editing_q_ptr' = None
                 ELSE /\ tree' = r.tree
                      /\ cb_sections' = r.cb
                      /\ UNCHANGED editing_q_ptr
    /\ UNCHANGED <<metadata, disk, HAS_URDU_LIB, export_vars>>

SaveQuestionInput == SaveQuestionInputFrom(QForms)

\* "Edit Question" or a double click on the question item that is child j
\* of top-level item i
LoadQuestionForEdit ==
    /\ pc = "idle"
    /\ \E i \in 1..Len(tree) : \E j \in 1..Len(tree[i].children) :
         LET r == sync_tree_to_model(tree, sections, cb_sections)
             s_idx == r.tree[i].data
             q_idx == j - 1
         IN  /\ sections' = r.sections
             /\ tree' = r.tree
             /\ IF /\ r.ok
                   /\ s_idx < Len(r.sections)
                   /\ q_idx < Len(r.sections[s_idx + 1].questions)
                THEN /\ editing_q_ptr' = <<s_idx, q_idx>>
                     /\ cb_sections' = [r.cb EXCEPT !.index = s_idx]
                ELSE /\ UNCHANGED editing_q_ptr
                     /\ cb_sections' = r.cb
    /\ UNCHANGED <<metadata, disk, HAS_URDU_LIB, export_vars>>

\* the "Cancel Edit" button, shown while editing_q_ptr is set
ResetEditor ==
    /\ pc = "idle"
    /\ editing_q_ptr # None
    /\ editing_q_ptr' = None
    /\ UNCHANGED <<metadata, sections, tree, cb_sections, disk, HAS_URDU_LIB,
                   export_vars>>

\* delete_item on child j of top-level item i ("Delete Question")
DeleteQuestion ==
    /\ pc = "idle"
    /\ \E i \in 1..Len(tree) : \E j \in 1..Len(tree[i].children) :
         LET t == [tree EXCEPT ![i].children = remove_at(@, j)]
             r == sync_tree_to_model(t, sections, cb_sections)
         IN  /\ sections' = r.sections
             /\ tree' = r.tree
             /\ cb_sections' = r.cb
    /\ UNCHANGED <<metadata, editing_q_ptr, disk, HAS_URDU_LIB, export_vars>>

\* delete_item on top-level item i ("Delete Section", or "Delete Question"
\* on a question item lying at the top level)
DeleteTopLevel ==
    /\ pc = "idle"
    /\ \E i \in 1..Len(tree) :
         LET r == sync_tree_to_model(remove_at(tree, i), sections, cb_sections)
         IN  /\ sections' = r.sections
             /\ tree' = r.tree
             /\ cb_sections' = r.cb
    /\ UNCHANGED <<metadata, editing_q_ptr, disk, HAS_URDU_LIB, export_vars>>

\* Drag and drop inside the tree (QAbstractItemView.InternalMove, lines
\* 298-300) moves items of the widget only; no handler of the program runs.

\* a top-level item is dropped at another top-level position
DragTopLevel ==
    /\ pc = "idle"
    /\ \E i \in 1..Len(tree) : \E j \in 1..Len(tree) :
         /\ i # j
         /\ tree' = insert_at(remove_at(tree, i), j, tree[i])
    /\ UNCHANGED <<metadata, sections, editing_q_ptr, cb_sections, disk,
                   HAS_URDU_LIB, export_vars>>

\* question item j of section item i is dropped at position n of section
\* item k
DragQuestion ==
    /\ pc = "idle"
    /\ \E i \in 1..Len(tree) : \E j \in 1..Len(tree[i].children) :
       \E k \in 1..Len(tree) :
         LET t == [tree EXCEPT ![i].children = remove_at(@, j)] IN
         /\ tree[k].role = "SECTION"
         /\ Len(t[k].children) < MaxQuestions
         /\ \E n \in 1..(Len(t[k].children) + 1) :
              /\ <<k, n>> # <<i, j>>
              /\ tree' = [t EXCEPT ![k].children =
                                insert_at(@, n, tree[i].children[j])]
    /\ UNCHANGED <<metadata, sections, editing_q_ptr, cb_sections, disk,
                   HAS_URDU_LIB, export_vars>>

\* question item j of section item i is dropped at top-level position n
DragQuestionToRoot ==
    /\ pc = "idle"
    /\ \A k \in 1..Len(tree) : tree[k].role = "SECTION"
    /\ \E i \in 1..Len(tree) : \E j \in 1..Len(tree[i].children) :
       \E n \in 1..(Len(tree) + 1) :
         tree' = insert_at([tree EXCEPT ![i].children = remove_at(@, j)], n,
                           [role |-> "QUESTION", data |-> tree[i].children[j],
                            children |-> <<>>])
    /\ UNCHANGED <<metadata, sections, editing_q_ptr, cb_sections, disk,
                   HAS_URDU_LIB, export_vars>>

\* "Save Progress (.csv)"; accept = FALSE: the file dialog was cancelled.
\* Files of more than MaxFileRows rows are not written.
SaveCsv ==
    /\ pc = "idle"
    /\ \E accept \in BOOLEAN :
         LET r == sync_tree_to_model(tree, sections, cb_sections) IN
         /\ sections' = r.sections
         /\ tree' = r.tree
         /\ cb_sections' = r.cb
         /\ IF r.ok /\ accept
            THEN /\ Len(csv_rows(metadata, r.sections)) <= MaxFileRows
                 /\ disk' = [exists |-> TRUE,
                             rows |-> csv_rows(metadata, r.sections)]
            ELSE UNCHANGED disk
    /\ UNCHANGED <<metadata, editing_q_ptr, HAS_URDU_LIB, export_vars>>

\* the files the open dialog can name
Files == ExternalFiles \cup (IF disk.exists THEN {disk.rows} ELSE {})

\* load_csv on the rows of the chosen file: the new [ok, sections, tree, cb]
load_csv(rows, items, cb) ==
    LET r == load_rows(rows, <<>>) IN
    [ok |-> r.ok, sections |-> r.sections,
     tree |-> IF r.ok THEN rebuild_items(r.sections) ELSE items,
     cb |-> IF r.ok THEN refresh_sections_combo(cb, r.sections) ELSE cb]

\* "Load Progress (.csv)" with the file of these rows chosen
LoadCsvOf(rows) ==
    LET r == load_csv(rows, tree, cb_sections) IN
    /\ pc = "idle"
    /\ sections' = r.sections
    /\ tree' = r.tree
    /\ cb_sections' = r.cb
    /\ UNCHANGED <<metadata, editing_q_ptr, disk, HAS_URDU_LIB, export_vars>>

LoadCsv == \E rows \in Files : LoadCsvOf(rows)

Next ==
    \/ AddSection
    \/ EditSection
    \/ SaveQuestionInput
    \/ LoadQuestionForEdit
    \/ ResetEditor
    \/ DeleteQuestion
    \/ DeleteTopLevel
    \/ DragTopLevel
    \/ DragQuestion
    \/ SaveCsv
    \/ LoadCsv

Spec == Init /\ [][Next]_vars

---------------------------------------------------------------------------
(* PDF export: text, geometry and the layout of one element *)

PAGE_W == 8270
PAGE_H == 11690
MARGIN_X == 500
MARGIN_TOP == 500
MARGIN_BTM == 500
CONTENT_W == PAGE_W - (2 * MARGIN_X)
FS_HEADER == 18
FS_SUB == 14
FS_BODY == 12
LH == 210
H_BOX_H == 2000
SEC_H == 400
WRAP_WIDTH == 80
URDU_FIRST == 1536
URDU_LAST == 1791

L_Class == <<67, 108, 97, 115, 115, 58, 32>>
L_Time == <<84, 105, 109, 101, 58, 32>>
L_Subject == <<83, 117, 98, 106, 101, 99, 116, 58, 32>>
L_Marks == <<77, 97, 114, 107, 115, 58, 32>>
L_Name == <<78, 97, 109, 101, 58, 32>> \o [i \in 1..26 |-> 95]
L_Roll == <<82, 111, 108, 108, 32, 78, 111, 58, 32>> \o [i \in 1..12 |-> 95]
L_ColumnA == <<67, 111, 108, 117, 109, 110, 32, 65>>
L_ColumnB == <<67, 111, 108, 117, 109, 110, 32, 66>>

\* a detection that looks at the first code point only
is_urdu_text_prefix(text) ==
    text # <<>> /\ text[1] >= URDU_FIRST /\ text[1] <= URDU_LAST

\* re.search('[؀-ۿ]', text)
is_urdu_text(text) ==
    \E i \in 1..Len(text) : text[i] >= URDU_FIRST /\ text[i] <= URDU_LAST

\* process_text without the font: [txt, shaped, is_urdu].  The string
\* get_display(arabic_reshaper.reshape(text)) is the pair of text and
\* shaped = TRUE.
process_text(text) ==
    IF ~HAS_URDU_LIB \/ text = <<>>
    THEN [txt |-> text, shaped |-> FALSE, is_urdu |-> FALSE]
    ELSE IF is_urdu_text(text)
    THEN [txt |-> text, shaped |-> TRUE, is_urdu |-> TRUE]
    ELSE [txt |-> text, shaped |-> FALSE, is_urdu |-> FALSE]

\* draw_text without the mirroring of lines 712-714
draw_text_no_mirror(x, y, txt, fs, weight, align, v_align, force_rtl) ==
    LET p == process_text(txt)
    IN  [kind |-> "text", x |-> x, y |-> y, txt |-> p.txt,
         shaped |-> p.shaped,
         fontsize |-> IF p.is_urdu THEN fs + 1 ELSE fs,
         fontweight |-> IF p.is_urdu THEN "normal" ELSE weight,
         ha |-> align, va |-> v_align]

\* draw_text: the text primitive handed to ax.text
draw_text(x, y, txt, fs, weight, align, v_align, force_rtl) ==
    LET p == process_text(txt)
        mirror == p.is_urdu /\ force_rtl /\ align \in {"left", "right"}
    IN  [kind |-> "text",
         x |-> IF mirror THEN PAGE_W - x ELSE x,
         y |-> y,
         txt |-> p.txt,
         shaped |-> p.shaped,
         fontsize |-> IF p.is_urdu THEN fs + 1 ELSE fs,
         fontweight |-> IF p.is_urdu THEN "normal" ELSE weight,
         ha |-> IF mirror THEN (IF align = "left" THEN "right" ELSE "left")
                ELSE align,
         va |-> v_align]

\* textwrap.wrap(text, width=80) for a text without tabs and hyphens:
\* white space becomes ' ', the text is cut into chunks (runs of spaces and
\* runs of other characters), and the chunks are filled into lines
munge(s) == [i \in 1..Len(s) |-> IF IsSpace(s[i]) THEN 32 ELSE s[i]]

chunk_starts(s) ==
    {i \in 1..Len(s) : i = 1 \/ ((s[i] = 32) # (s[i - 1] = 32))}

RECURSIVE chunks_from(_, _)
chunks_from(s, starts) ==
    IF starts = {} THEN <<>>
    ELSE LET a == CHOOSE i \in starts : \A j \in starts : i <= j
             rest == starts \ {a}
             b == IF rest = {} THEN Len(s) + 1
                  ELSE CHOOSE i \in rest : \A j \in rest : i <= j
         IN  <<SubSeq(s, a, b - 1)>> \o chunks_from(s, rest)

is_blank(chunk) == \A i \in 1..Len(chunk) : chunk[i] = 32

RECURSIVE chunks_len(_)
chunks_len(chunks) ==
    IF chunks = <<>> THEN 0 ELSE Len(chunks[1]) + chunks_len(Tail(chunks))

RECURSIVE chunks_join(_)
chunks_join(chunks) ==
    IF chunks = <<>> THEN <<>> ELSE chunks[1] \o chunks_join(Tail(chunks))

\* how many leading chunks fit on a line that holds cur_len characters
RECURSIVE chunks_fit(_, _)
chunks_fit(chunks, cur_len) ==
    IF chunks = <<>> THEN 0
    ELSE IF cur_len + Len(chunks[1]) > WRAP_WIDTH THEN 0
    ELSE 1 + chunks_fit(Tail(chunks), cur_len + Len(chunks[1]))

\* TextWrapper._wrap_chunks
RECURSIVE wrap_chunks(_, _)
wrap_chunks(chunks, lines) ==
    IF chunks = <<>> THEN lines
    ELSE LET c1 == IF is_blank(chunks[1]) /\ lines # <<>>
                   THEN Tail(chunks) ELSE chunks
             n == chunks_fit(c1, 0)
             cur == SubSeq(c1, 1, n)
             rest == SubSeq(c1, n + 1, Len(c1))
             long == rest # <<>> /\ Len(rest[1]) > WRAP_WIDTH
             space_left == WRAP_WIDTH - chunks_len(cur)
             cur2 == IF long THEN Append(cur, SubSeq(rest[1], 1, space_left))
                     ELSE cur
             rest2 == IF long
                      THEN <<SubSeq(rest[1], space_left + 1, Len(rest[1]))>>
                           \o Tail(rest)
                      ELSE rest
             cur3 == IF cur2 # <<>> /\ is_blank(cur2[Len(cur2)])
                     THEN SubSeq(cur2, 1, Len(cur2) - 1) ELSE cur2
         IN  wrap_chunks(rest2, IF cur3 # <<>>
                                THEN Append(lines, chunks_join(cur3))
                                ELSE lines)

wrap(text) ==
    LET s == munge(text) IN wrap_chunks(chunks_from(s, chunk_starts(s)), <<>>)

patch(x, y, w, h) == [kind |-> "patch", x |-> x, y |-> y, w |-> w, h |-> h]

rule(x1, x2, y) == [kind |-> "line", x1 |-> x1, x2 |-> x2, y |-> y]

\* cursor_y on a fresh page (lines 722, 754, 782)
page_top == PAGE_H - MARGIN_TOP

\* the header block (lines 725-747) drawn with the cursor at y
header_draws(md, y) ==
    LET cx == PAGE_W \div 2
        rule_y == y - 800
        meta_y == rule_y - 300
        meta_y2 == meta_y - 250
        name_y == meta_y2 - 350
    IN  <<patch(MARGIN_X, y - H_BOX_H, CONTENT_W, H_BOX_H),
          draw_text(cx, y - 300, md.school, FS_HEADER, "bold", "center",
                    "baseline", TRUE),
          draw_text(cx, y - 600, md.test, FS_SUB, "bold", "center",
                    "baseline", TRUE),
          rule(MARGIN_X + 200, PAGE_W - MARGIN_X - 200, rule_y),
          draw_text(MARGIN_X + 200, meta_y, L_Class \o md.class, FS_BODY,
                    "normal", "left", "baseline", TRUE),
          draw_text(cx + 500, meta_y, L_Time \o md.time, FS_BODY,
                    "normal", "left", "baseline", TRUE),
          draw_text(MARGIN_X + 200, meta_y2, L_Subject \o md.subject, FS_BODY,
                    "normal", "left", "baseline", TRUE),
          draw_text(cx + 500, meta_y2, L_Marks \o md.marks, FS_BODY,
                    "normal", "left", "baseline", TRUE),
          draw_text(MARGIN_X + 200, name_y, L_Name, FS_BODY,
                    "normal", "left", "baseline", TRUE),
          draw_text(cx + 500, name_y, L_Roll, FS_BODY,
                    "normal", "left", "baseline", TRUE)>>

\* f"{sec['name']}   {sec['desc']}"
section_title(sec) == sec.name \o <<32, 32, 32>> \o sec.desc

\* f"({sec['marks_per_q']} x {sec['attempt_count']} = {sec['total_marks']})"
section_marks(sec) ==
    <<40>> \o str_int(sec.marks_per_q) \o <<32, 120, 32>>
    \o str_int(sec.attempt_count) \o <<32, 61, 32>>
    \o str_int(sec.total_marks) \o <<41>>

\* the section header (lines 757-767) drawn with the cursor at y: the box,
\* the title, the marks annotation
section_draws(sec, y) ==
    LET sy == y - 250 IN
    <<patch(MARGIN_X, y - SEC_H, CONTENT_W, SEC_H),
      draw_text(MARGIN_X + 100, sy, section_title(sec), FS_BODY, "bold",
                "left", "baseline", TRUE),
      draw_text(PAGE_W - MARGIN_X - 100, sy, section_marks(sec), FS_BODY,
                "bold", "right", "baseline", TRUE)>>

\* a section space check that never asks for a page
section_needs_page_never(y) == FALSE

\* the section space check (line 753)
section_needs_page(y) == y < MARGIN_BTM + 1000

\* the height estimate req_h of a question (lines 777-779)
req_h(q) ==
    (Len(wrap(q.text)) * LH) + 150
    + (IF q.type = T_MCQ THEN 800 ELSE 0)
    + (IF q.type = T_MATCH THEN 1500 ELSE 0)

\* a question space check that forgets the height estimate
question_needs_page_cursor_only(y, need) == y < MARGIN_BTM

\* the question space check (line 781)
question_needs_page(y, need) == y - need < MARGIN_BTM

\* f"{opts[i]} (a)" and f"(a) {opts[i]}": the label of option i (0-based)
\* is chr(97 + i)
option_urdu(opt, i) == opt \o <<32, 40, 97 + i, 41>>

option_english(opt, i) == <<40, 97 + i, 41, 32>> \o opt

\* the option grid of an MCQ (lines 803-819) placed at opt_y:
\* [draws, cursor_y]
mcq_layout(opts, is_urdu_q, anchor, opt_y) ==
    IF is_urdu_q
    THEN [draws |->
            (IF Len(opts) > 0
             THEN <<draw_text(anchor, opt_y, option_urdu(opts[1], 0), FS_BODY,
                              "normal", "right", "baseline", FALSE)>>
             ELSE <<>>)
            \o (IF Len(opts) > 2
                THEN <<draw_text(anchor, opt_y - LH, option_urdu(opts[3], 2),
                                 FS_BODY, "normal", "right", "baseline",
                                 FALSE)>>
                ELSE <<>>)
            \o (IF Len(opts) > 1
                THEN <<draw_text(anchor - 3500, opt_y, option_urdu(opts[2], 1),
                                 FS_BODY, "normal", "right", "baseline",
                                 FALSE)>>
                ELSE <<>>)
            \o (IF Len(opts) > 3
                THEN <<draw_text(anchor - 3500, opt_y - LH,
                                 option_urdu(opts[4], 3), FS_BODY, "normal",
                                 "right", "baseline", FALSE)>>
                ELSE <<>>),
          cursor_y |-> opt_y - (2 * LH) - 150]
    ELSE [draws |->
            (IF Len(opts) > 0
             THEN <<draw_text(anchor, opt_y, option_english(opts[1], 0),
                              FS_BODY, "normal", "left", "baseline", TRUE)>>
             ELSE <<>>)
            \o (IF Len(opts) > 1
                THEN <<draw_text(anchor + 3500, opt_y,
                                 option_english(opts[2], 1), FS_BODY, "normal",
                                 "left", "baseline", TRUE)>>
                ELSE <<>>)
            \o (IF Len(opts) > 2
                THEN <<draw_text(anchor, opt_y - LH,
                                 option_english(opts[3], 2), FS_BODY, "normal",
                                 "left", "baseline", TRUE)>>
                ELSE <<>>)
            \o (IF Len(opts) > 3
                THEN <<draw_text(anchor + 3500, opt_y - LH,
                                 option_english(opts[4], 3), FS_BODY, "normal",
                                 "left", "baseline", TRUE)>>
                ELSE <<>>),
          cursor_y |-> (opt_y - LH) - 200]

\* row i (0-based) of the match table (lines 827-828) at y
match_row(col_a, col_b, i, y) ==
    (IF i < Len(col_a)
     THEN <<draw_text(MARGIN_X + 1000, y, col_a[i + 1], FS_BODY, "normal",
                      "left", "baseline", TRUE)>>
     ELSE <<>>)
    \o (IF i < Len(col_b)
        THEN <<draw_text(MARGIN_X + 4000, y, col_b[i + 1], FS_BODY, "normal",
                         "left", "baseline", TRUE)>>
        ELSE <<>>)

RECURSIVE match_rows(_, _, _, _, _)
match_rows(col_a, col_b, i, n, y) ==
    IF i >= n THEN <<>>
    ELSE match_row(col_a, col_b, i, y)
         \o match_rows(col_a, col_b, i + 1, n, y - LH)

\* the match table (lines 822-830) placed at y: [draws, cursor_y]
match_layout(col_a, col_b, y) ==
    LET n == IF Len(col_a) > Len(col_b) THEN Len(col_a) ELSE Len(col_b) IN
    [draws |->
        <<draw_text(MARGIN_X + 1000, y, L_ColumnA, FS_BODY, "bold", "left",
                    "baseline", TRUE),
          draw_text(MARGIN_X + 4000, y, L_ColumnB, FS_BODY, "bold", "left",
                    "baseline", TRUE)>>
        \o match_rows(col_a, col_b, 0, n, y - LH),
     cursor_y |-> y - LH - (n * LH) - 200]

\* question idx (0-based) of a section (lines 785-830) drawn with the
\* cursor at y: [draws, cursor_y]
question_layout(q, idx, y) ==
    LET lines == wrap(q.text)
        is_urdu_q == process_text(q.text).is_urdu
        anchor == IF is_urdu_q THEN PAGE_W - MARGIN_X - 100
                  ELSE MARGIN_X + 500
        body == <<draw_text(MARGIN_X, y, str_int(idx + 1) \o <<46>>, FS_BODY,
                            "bold", "left", "top", FALSE)>>
                \o [i \in 1..Len(lines) |->
                      draw_text(anchor, y - ((i - 1) * LH), lines[i], FS_BODY,
                                "normal",
                                IF is_urdu_q THEN "right" ELSE "left",
                                "top", FALSE)]
        y1 == y - (Len(lines) * LH) - 100
        trailer == IF q.type = T_MCQ
                   THEN mcq_layout(q.options, is_urdu_q, anchor, y1)
                   ELSE IF q.type = T_MATCH
                   THEN match_layout(q.col_a, q.col_b, y1)
                   ELSE [draws |-> <<>>, cursor_y |-> y1]
    IN  [draws |-> body \o trailer.draws, cursor_y |-> trailer.cursor_y]

---------------------------------------------------------------------------
(* PDF export as a step machine.  pc is the position inside export_pdf:   *)
(* "idle" (not running), "sec_check" / "sec_draw" (before / after the     *)
(* space check of section s_pos), "q_check" / "q_draw" (the same for      *)
(* question q_pos of section s_pos), "finish" (before the last savefig),  *)
(* "done" / "failed" (the success / error message box is open).  ax is    *)
(* the list of primitives on the current figure, pdf the PdfPages writer: *)
(* open or closed, with the pages saved so far.  savefig writes to the    *)
(* file and may raise (io_ok = FALSE); the with statement then closes the *)
(* writer before the except clause reports the error.                     *)

\* a savefig that writes nothing
savefig_lost(writer, fig) == writer

\* pdf.savefig(fig); plt.close(); fig, ax = new_page() is the assignment
\* pdf' = savefig, ax' = <<>>
savefig(writer, fig) == [writer EXCEPT !.pages = Append(@, fig)]

\* a with statement that leaves the writer as it is
with_exit_leak(writer) == writer

\* the end of "with PdfPages(fn) as pdf" (line 697), reached by falling
\* out of the block or by an exception: PdfPages.__exit__ closes the file
with_exit(writer) == [writer EXCEPT !.open = FALSE]

\* the position after the header of section s has been drawn
after_section(secs, s) ==
    IF secs[s].questions # <<>> THEN [pc |-> "q_check", s |-> s, q |-> 1]
    ELSE IF s < Len(secs) THEN [pc |-> "sec_check", s |-> s + 1, q |-> 0]
    ELSE [pc |-> "finish", s |-> s, q |-> 0]

\* the position after question q of section s has been drawn
after_question(secs, s, q) ==
    IF q < Len(secs[s].questions) THEN [pc |-> "q_check", s |-> s, q |-> q + 1]
    ELSE IF s < Len(secs) THEN [pc |-> "sec_check", s |-> s + 1, q |-> 0]
    ELSE [pc |-> "finish", s |-> s, q |-> 0]

\* the "Generate PDF" button: lines 681-749.  dialog is what the file
\* dialog and the opening of the file come to.
ExportPdf ==
    /\ pc = "idle"
    /\ \E dialog \in {"cancel", "io_error", "open"} :
         LET r == sync_tree_to_model(tree, sections, cb_sections) IN
         /\ sections' = r.sections
         /\ tree' = r.tree
         /\ cb_sections' = r.cb
         /\ IF ~r.ok \/ dialog = "cancel"
            THEN UNCHANGED <<pc, s_pos, q_pos, cursor_y, ax, pdf>>
            ELSE IF dialog = "io_error"
            THEN /\ pc' = "failed"
                 /\ UNCHANGED <<s_pos, q_pos, cursor_y, ax, pdf>>
            ELSE /\ pc' = IF r.sections = <<>> THEN "finish" ELSE "sec_check"
                 /\ s_pos' = IF r.sections = <<>> THEN 0 ELSE 1
                 /\ q_pos' = 0
                 /\ pdf' = [open |-> TRUE, pages |-> <<>>]
                 /\ ax' = header_draws(metadata, page_top)
                 /\ cursor_y' = page_top - (H_BOX_H + 300)
    /\ UNCHANGED <<metadata, editing_q_ptr, disk, HAS_URDU_LIB, call>>

\* lines 753-754: the space check before a section header
SectionCheck ==
    /\ pc = "sec_check"
    /\ IF section_needs_page(cursor_y)
       THEN \E io_ok \in BOOLEAN :
              IF io_ok
              THEN /\ pdf' = savefig(pdf, ax)
                   /\ ax' = <<>>
                   /\ cursor_y' = page_top
                   /\ pc' = "sec_draw"
              ELSE /\ pdf' = with_exit(pdf)
                   /\ pc' = "failed"
                   /\ UNCHANGED <<ax, cursor_y>>
       ELSE /\ pc' = "sec_draw"
            /\ UNCHANGED <<ax, cursor_y, pdf>>
    /\ UNCHANGED <<metadata, sections, tree, editing_q_ptr, cb_sections, disk,
                   HAS_URDU_LIB, s_pos, q_pos, call>>

\* lines 757-769: the section header
SectionDraw ==
    /\ pc = "sec_draw"
    /\ LET n == after_section(sections, s_pos) IN
       /\ ax' = ax \o section_draws(sections[s_pos], cursor_y)
       /\ cursor_y' = cursor_y - (SEC_H + 200)
       /\ pc' = n.pc
       /\ s_pos' = n.s
       /\ q_pos' = n.q
    /\ UNCHANGED <<metadata, sections, tree, editing_q_ptr, cb_sections, disk,
                   HAS_URDU_LIB, pdf, call>>

\* lines 773-782: the space check before a question
QuestionCheck ==
    /\ pc = "q_check"
    /\ IF question_needs_page(cursor_y,
                              req_h(sections[s_pos].questions[q_pos]))
       THEN \E io_ok \in BOOLEAN :
              IF io_ok
              THEN /\ pdf' = savefig(pdf, ax)
                   /\ ax' = <<>>
                   /\ cursor_y' = page_top
                   /\ pc' = "q_draw"
              ELSE /\ pdf' = with_exit(pdf)
                   /\ pc' = "failed"
                   /\ UNCHANGED <<ax, cursor_y>>
       ELSE /\ pc' = "q_draw"
            /\ UNCHANGED <<ax, cursor_y, pdf>>
    /\ UNCHANGED <<metadata, sections, tree, editing_q_ptr, cb_sections, disk,
                   HAS_URDU_LIB, s_pos, q_pos, call>>

\* lines 785-830: the question
QuestionDraw ==
    /\ pc = "q_draw"
    /\ LET n == after_question(sections, s_pos, q_pos)
           l == question_layout(sections[s_pos].questions[q_pos], q_pos - 1,
                                cursor_y)
       IN  /\ ax' = ax \o l.draws
           /\ cursor_y' = l.cursor_y
           /\ pc' = n.pc
           /\ s_pos' = n.s
           /\ q_pos' = n.q
    /\ UNCHANGED <<metadata, sections, tree, editing_q_ptr, cb_sections, disk,
                   HAS_URDU_LIB, pdf, call>>

\* lines 832-835: the last page, the end of the with statement, the
\* success message
Finish ==
    /\ pc = "finish"
    /\ \E io_ok \in BOOLEAN :
         IF io_ok
         THEN /\ pdf' = with_exit(savefig(pdf, ax))
              /\ pc' = "done"
         ELSE /\ pdf' = with_exit(pdf)
              /\ pc' = "failed"
    /\ UNCHANGED <<metadata, sections, tree, editing_q_ptr, cb_sections, disk,
                   HAS_URDU_LIB, s_pos, q_pos, cursor_y, ax, call>>

\* the message box is closed and export_pdf returns: its locals are gone
Acknowledge ==
    /\ pc \in {"done", "failed"}
    /\ pc' = "idle"
    /\ s_pos' = 0
    /\ q_pos' = 0
    /\ cursor_y' = 0
    /\ ax' = <<>>
    /\ pdf' = PdfIdle
    /\ UNCHANGED <<metadata, sections, tree, editing_q_ptr, cb_sections, disk,
                   HAS_URDU_LIB, call>>

---------------------------------------------------------------------------
(* The export specification: a document is loaded from a file, the user   *)
(* may drag items of the tree, and exports it.                            *)

FewQuestions == 21
ManyQuestions == 40
NumSections == 16
LongLines == 44
ManyRows == 60

Sec(name, desc, marks_per_q, attempt_count, questions) ==
    [id |-> 0, name |-> name, desc |-> desc, marks_per_q |-> marks_per_q,
     attempt_count |-> attempt_count,
     total_marks |-> marks_per_q * attempt_count, questions |-> questions]

Short(text) == Question(T_SHORT, text, <<>>, <<>>, <<>>)

\* the documents of the files the user loads before exporting
PdfDocuments ==
    {<<>>,
     \* the four-option MCQ of an English section
     <<Sec(St_A, <<100>>, 2, 5,
           <<Question(T_MCQ, <<97>>, <<St_x, St_y, St_x, St_y>>, <<>>, <<>>)>>)>>,
     \* an Urdu section with an Urdu MCQ of three options
     <<Sec(St_U, <<>>, 1, 100,
           <<Question(T_MCQ, St_U, <<St_U, St_x, St_y>>, <<>>, <<>>)>>)>>,
     \* two sections, the second without questions
     <<Sec(St_A, <<>>, 2, 5, <<Short(<<97, 32, 98>>)>>),
       Sec(St_U, <<100>>, 1, 100, <<>>)>>,
     \* columns of three and one entries
     <<Sec(St_A, <<>>, 2, 5,
           <<Question(T_MATCH, <<97>>, <<>>, <<St_x, St_y, St_x>>, <<St_y>>)>>)>>,
     \* an English MCQ with an Urdu option, and one with five options
     <<Sec(St_A, <<>>, 2, 5,
           <<Question(T_MCQ, <<97>>, <<St_U, St_x>>, <<>>, <<>>)>>)>>,
     <<Sec(St_A, <<>>, 2, 5,
           <<Question(T_MCQ, <<97>>, <<St_x, St_y, St_x, St_y, St_x>>,
                      <<>>, <<>>)>>)>>,
     \* a column entry in Urdu
     <<Sec(St_A, <<>>, 2, 5,
           <<Question(T_MATCH, <<97>>, <<>>, <<St_U, St_x>>, <<St_y>>)>>)>>,
     \* one-line questions that fill less than a page, and more than a page
     <<Sec(St_A, <<>>, 2, 5, [i \in 1..FewQuestions |-> Short(<<97>>)])>>,
     <<Sec(St_A, <<>>, 2, 5, [i \in 1..ManyQuestions |-> Short(<<97>>)])>>,
     \* an MCQ at the foot of the page
     <<Sec(St_A, <<>>, 2, 5,
           [i \in 1..(FewQuestions + 1) |-> Short(<<97>>)]
           \o <<Question(T_MCQ, <<97>>, <<St_x, St_y>>, <<>>, <<>>)>>)>>,
     \* section headers down the page
     [i \in 1..NumSections |-> Sec(St_A, <<>>, 2, 5, <<>>)],
     \* a question whose text wraps into LongLines lines
     <<Sec(St_A, <<>>, 2, 5,
           <<Question(T_MATCH,
                      [i \in 1..(((LongLines - 1) * WRAP_WIDTH) + 1) |-> 97],
                      <<>>, <<St_x>>, <<St_y>>)>>)>>,
     \* a match table of ManyRows rows
     <<Sec(St_A, <<>>, 2, 5,
           <<Question(T_MATCH, <<97>>, <<>>, [i \in 1..ManyRows |-> St_x],
                      <<St_y>>)>>)>>}

PdfMetadatas ==
    Metadatas \cup
    {[school |-> St_U, test |-> <<84>>, class |-> <<57>>,
      subject |-> <<80>>, time |-> <<49>>, marks |-> <<53, 48>>]}

\* the state after __init__ and load_csv of the file of a document
InitPdf ==
    /\ metadata \in PdfMetadatas
    /\ HAS_URDU_LIB \in BOOLEAN
    /\ \E doc \in PdfDocuments :
         LET r == load_csv(csv_rows(metadata, doc), <<>>,
                           [items |-> <<>>, index |-> -1])
         IN  /\ sections = r.sections
             /\ tree = r.tree
             /\ cb_sections = r.cb
    /\ editing_q_ptr = None
    /\ disk = [exists |-> FALSE, rows |-> <<>>]
    /\ pc = "idle"
    /\ s_pos = 0
    /\ q_pos = 0
    /\ cursor_y = 0
    /\ ax = <<>>
    /\ pdf = PdfIdle
    /\ call = <<>>

\* drags are taken on trees within the bounds of the editor
small_tree ==
    /\ Len(tree) <= MaxSections
    /\ \A i \in 1..Len(tree) : Len(tree[i].children) <= MaxQuestions

NextPdf ==
    \/ (small_tree /\ DragTopLevel)
    \/ (small_tree /\ DragQuestion)
    \/ (small_tree /\ DragQuestionToRoot)
    \/ ExportPdf
    \/ SectionCheck
    \/ SectionDraw
    \/ QuestionCheck
    \/ QuestionDraw
    \/ Finish
    \/ Acknowledge

SpecPdf == InitPdf /\ [][NextPdf]_vars

---------------------------------------------------------------------------
(* draw_text alone: one call on a fresh figure.  call holds the           *)
(* arguments <<x, txt, align, force_rtl>>, ax the primitive drawn.        *)

DrawXs == {MARGIN_X, MARGIN_X + 100, PAGE_W \div 2, PAGE_W - MARGIN_X - 100}

\* texts without, with and around an Urdu letter, and the code points at
\* and next to the two ends of the Urdu block
DrawTexts ==
    {<<>>, St_A, St_U, St_A \o St_U, St_A \o St_U \o St_A,
     <<URDU_FIRST>>, <<URDU_LAST>>, <<URDU_FIRST - 1>>, <<URDU_LAST + 1>>}

InitDraw ==
    /\ metadata \in Metadatas
    /\ sections = <<>>
    /\ tree = <<>>
    /\ editing_q_ptr = None
    /\ cb_sections = [items |-> <<>>, index |-> -1]
    /\ disk = [exists |-> FALSE, rows |-> <<>>]
    /\ HAS_URDU_LIB \in BOOLEAN
    /\ pc = "idle"
    /\ s_pos = 0
    /\ q_pos = 0
    /\ cursor_y = 0
    /\ ax = <<>>
    /\ pdf = PdfIdle
    /\ call = <<>>

DrawTextCall ==
    /\ \E x \in DrawXs : \E txt \in DrawTexts :
       \E align \in {"left", "right", "center"} : \E force_rtl \in BOOLEAN :
         /\ call' = <<x, txt, align, force_rtl>>
         /\ ax' = <<draw_text(x, page_top, txt, FS_BODY, "bold", align,
                              "baseline", force_rtl)>>
    /\ UNCHANGED <<metadata, sections, tree, editing_q_ptr, cb_sections, disk,
                   HAS_URDU_LIB, pc, s_pos, q_pos, cursor_y, pdf>>

NextDraw == DrawTextCall

SpecDraw == InitDraw /\ [][NextDraw]_vars

\* persistence alone: documents are built, saved and loaded
CsvSaveQuestionInput == SaveQuestionInputFrom(CsvQForms)

NextCsv ==
    \/ AddSection
    \/ CsvSaveQuestionInput
    \/ SaveCsv
    \/ LoadCsv

SpecCsv == Init /\ [][NextCsv]_vars

---------------------------------------------------------------------------
(* Claims about the editor and the persistence *)

\* C1: in every reachable state every section's total_marks equals
\* marks_per_q * attempt_count.
C1_TotalMarks ==
    \A k \in 1..Len(sections) :
        sections[k].total_marks =
            sections[k].marks_per_q * sections[k].attempt_count

\* a section loaded from a file (3 x 4) beside one made in the dialog (1 x 100)
C1_Witness ==
    /\ \E k \in 1..Len(sections) :
          sections[k].marks_per_q = 3 /\ sections[k].total_marks = 12
    /\ \E k \in 1..Len(sections) :
          sections[k].attempt_count = 100 /\ sections[k].total_marks = 100

\* what C2 compares: per section its name and its questions
doc_content(secs) ==
    [k \in 1..Len(secs) |-> [name |-> secs[k].name,
                             questions |-> secs[k].questions]]

\* C2: loading the file save_csv has just written from the document gives
\* back the section order, the question order and every question's type,
\* text, options and columns.
C2_RoundTrip ==
    [][(/\ disk.exists
        /\ disk.rows = csv_rows(metadata, sections)
        /\ LoadCsvOf(disk.rows))
       => doc_content(sections') = doc_content(sections)]_vars

\* C3: a load that meets a malformed record leaves self.sections as it was.
C3_FailedLoadKeepsDocument ==
    [][\A rows \in Files :
         (~load_rows(rows, <<>>).ok /\ LoadCsvOf(rows))
         => sections' = sections]_vars

\* C4: loading the legacy file gives one section with attempt_count 1 and
\* total_marks 5 = marks_per_q, holding the question that follows it.
C4_LegacyLoad ==
    [][LoadCsvOf(LegacyFile)
       => /\ Len(sections') = 1
          /\ sections'[1].marks_per_q = 5
          /\ sections'[1].attempt_count = 1
          /\ sections'[1].total_marks = 5
          /\ Len(sections'[1].questions) = 1]_vars

---------------------------------------------------------------------------
(* Claims about the export *)

\* the elements of a document after the header block, in document order:
\* for each the extent its space check asks for (need) and the extent its
\* drawing moves the cursor by (used)
RECURSIVE question_extents(_, _)
question_extents(qs, idx) ==
    IF idx >= Len(qs) THEN <<>>
    ELSE <<[need |-> req_h(qs[idx + 1]),
            used |-> 0 - question_layout(qs[idx + 1], idx, 0).cursor_y]>>
         \o question_extents(qs, idx + 1)

RECURSIVE extents(_)
extents(secs) ==
    IF secs = <<>> THEN <<>>
    ELSE <<[need |-> 1000, used |-> SEC_H + 200]>>
         \o question_extents(secs[1].questions, 0)
         \o extents(Tail(secs))

RECURSIVE sum_need(_)
sum_need(es) == IF es = <<>> THEN 0 ELSE es[1].need + sum_need(Tail(es))

RECURSIVE sum_used(_, _)
sum_used(es, n) == IF n = 0 THEN 0 ELSE es[n].used + sum_used(es, n - 1)

header_extent == H_BOX_H + 300

\* the height between the top margin and the bottom margin
content_height == PAGE_H - MARGIN_TOP - MARGIN_BTM

\* some element, placed after all that precedes it on one page, needs more
\* than is left above the bottom margin
overflows(secs) ==
    LET es == extents(secs) IN
    \E k \in 1..Len(es) :
        header_extent + sum_used(es, k - 1) + es[k].need > content_height

\* C5 as stated: when the required extents of the header block, the section
\* headers and the questions add up to more than the content height, a
\* finished export has emitted at least two pages.
C5_CumulativeRequiredExtent ==
    (pc = "done"
     /\ header_extent + sum_need(extents(sections)) > content_height)
    => Len(pdf.pages) >= 2

\* C5, amended: when for some section header or question the extent the
\* elements before it consume, plus its own required extent, is more than
\* the content height, a finished export has emitted at least two pages.
C5_ConsumedExtent ==
    (pc = "done" /\ overflows(sections)) => Len(pdf.pages) >= 2

C5_Witness ==
    /\ pc = "done"
    /\ overflows(sections)
    /\ Len(pdf.pages) = 2
    /\ Len(sections) = 1
    /\ Len(sections[1].questions) = ManyQuestions

\* C6 as stated: when the first primitive of a section header or question
\* is placed, cursor_y is at or below the page top and cursor_y minus the
\* element's required extent is at or above the bottom margin.
C6_SpaceAtFirstPrimitive ==
    /\ pc = "sec_draw"
       => cursor_y <= page_top /\ cursor_y - 1000 >= MARGIN_BTM
    /\ pc = "q_draw"
       => /\ cursor_y <= page_top
          /\ cursor_y - req_h(sections[s_pos].questions[q_pos]) >= MARGIN_BTM

\* C6, amended: when the first primitive of a section header or question
\* is placed, cursor_y is at or below the page top, and either cursor_y
\* minus the element's required extent is at or above the bottom margin or
\* the element starts a fresh page (cursor_y is the page top).
C6_SpaceOrFreshPage ==
    /\ pc = "sec_draw"
       => /\ cursor_y <= page_top
          /\ (cursor_y - 1000 >= MARGIN_BTM \/ (cursor_y = page_top /\ ax = <<>>))
    /\ pc = "q_draw"
       => /\ cursor_y <= page_top
          /\ \/ cursor_y - req_h(sections[s_pos].questions[q_pos])
                  >= MARGIN_BTM
             \/ (cursor_y = page_top /\ ax = <<>>)

\* an element taller than the page, drawn directly after a page break
C6_Witness ==
    /\ pc = "q_draw"
    /\ cursor_y = page_top
    /\ ax = <<>>
    /\ Len(pdf.pages) = 1
    /\ cursor_y - req_h(sections[s_pos].questions[q_pos]) < MARGIN_BTM

\* the opposite of a start / end alignment
flipped(align) == IF align = "left" THEN "right" ELSE "left"

\* C7: the primitive of a draw_text call has the opposite alignment and
\* x = PAGE_W - x when the text is RTL, force_rtl is set and align is left
\* or right; otherwise it has the requested x and alignment.
C7_Placement ==
    call # <<>> =>
        LET x == call[1]
            txt == call[2]
            align == call[3]
            force_rtl == call[4]
            rtl == HAS_URDU_LIB /\ txt # <<>>
                   /\ \E i \in 1..Len(txt) : txt[i] \in 1536..1791
        IN  IF rtl /\ force_rtl /\ align \in {"left", "right"}
            THEN ax[1].ha = flipped(align) /\ ax[1].x = PAGE_W - x
            ELSE ax[1].ha = align /\ ax[1].x = x

\* an RTL title at the left extreme is drawn right-aligned at the mirrored x
C7_Witness ==
    /\ call = <<MARGIN_X + 100, St_U, "left", TRUE>>
    /\ HAS_URDU_LIB
    /\ ax[1].ha = "right"
    /\ ax[1].x = PAGE_W - MARGIN_X - 100

\* C8: the title and the marks annotation a section header has just drawn
\* (the last two primitives) sit at the two extremes of the content area,
\* never at the same x with the same alignment.
C8_OppositeExtremes ==
    [][SectionDraw =>
         LET title == ax'[Len(ax') - 1]
             marks == ax'[Len(ax')]
         IN  /\ ~(title.x = marks.x /\ title.ha = marks.ha)
             /\ {title.x, marks.x} =
                    {MARGIN_X + 100, PAGE_W - MARGIN_X - 100}]_vars

\* the order in which the tree shows the sections: the identity of the
\* dict behind each section item
shown_order ==
    [i \in 1..Len(tree) |->
        IF tree[i].role = "SECTION" /\ tree[i].data < Len(sections)
        THEN sections[tree[i].data + 1].id ELSE 0]

position(order, id) == CHOOSE k \in 1..Len(order) : order[k] = id

\* C9: adding a section or editing a section's details keeps the relative
\* order in which the tree shows the sections that were there before.
C9_OrderPreserved ==
    [][(AddSection \/ EditSection) =>
         \A a \in 1..Len(sections) : \A b \in 1..Len(sections) :
            LET before == shown_order
                after == shown_order'
            IN  (/\ \E k \in 1..Len(before) : before[k] = a
                 /\ \E k \in 1..Len(before) : before[k] = b
                 /\ position(before, a) < position(before, b))
                => (/\ \E k \in 1..Len(after) : after[k] = a
                    /\ \E k \in 1..Len(after) : after[k] = b
                    /\ position(after, a) < position(after, b))]_vars

\* the fields of the Exam document C10 names
doc_fields(secs) ==
    [k \in 1..Len(secs) |->
        [name |-> secs[k].name, desc |-> secs[k].desc,
         marks_per_q |-> secs[k].marks_per_q,
         attempt_count |-> secs[k].attempt_count,
         total_marks |-> secs[k].total_marks,
         questions |-> secs[k].questions]]

\* C10: no step of export_pdf changes the metadata, the list of sections,
\* a section's fields or a section's questions.  (Of the steps of the
\* export specification the drags move items of the tree widget only;
\* every step that is not a drag is a step of export_pdf.)
C10_ExportKeepsDocument ==
    [][/\ metadata' = metadata
       /\ doc_fields(sections') = doc_fields(sections)]_vars

---------------------------------------------------------------------------
(* Claims about the export, continued *)

\* C11: whenever export_pdf is not running or has come to its message box
\* (success or error), the writer it opened is closed.
C11_WriterClosed == pc \in {"idle", "done", "failed"} => ~pdf.open

\* a savefig that raised after a page had been saved
C11_Witness ==
    /\ pc = "failed"
    /\ Len(pdf.pages) >= 1
    /\ ~pdf.open

\* a footer marker: a centered text at the bottom margin of the page
is_footer(p) == p.kind = "text" /\ p.ha = "center" /\ p.y <= MARGIN_BTM

footers(page) == {i \in 1..Len(page) : is_footer(page[i])}

\* C12: a successfully exported document holds exactly one footer marker,
\* on its last page.
C12_FooterOnLastPage ==
    pc = "done" =>
        /\ Cardinality(footers(pdf.pages[Len(pdf.pages)])) = 1
        /\ \A k \in 1..(Len(pdf.pages) - 1) : footers(pdf.pages[k]) = {}

\* the larger of two numbers
max(a, b) == IF a > b THEN a ELSE b

\* the cells of a list of primitives that show txt at (x, y)
cells_at(prims, x, y) ==
    {i \in 1..Len(prims) :
        prims[i].kind = "text" /\ prims[i].x = x /\ prims[i].y = y}

\* C13: the table a Match Columns question has just drawn holds, below the
\* two headings, max(m, n) rows one line-height apart; row i holds column
\* A's entry i in the left cell iff i < m and column B's entry i in the
\* right cell iff i < n, and nothing else; the cursor has moved by the
\* heading line, the rows and the gap.
C13_MatchRows ==
    [][(QuestionDraw /\ sections[s_pos].questions[q_pos].type = T_MATCH) =>
         LET q == sections[s_pos].questions[q_pos]
             m == Len(q.col_a)
             n == Len(q.col_b)
             y1 == cursor_y - (Len(wrap(q.text)) * LH) - 100
             table == SubSeq(ax', Len(ax) + 2 + Len(wrap(q.text)), Len(ax'))
             left == MARGIN_X + 1000
             right == MARGIN_X + 4000
         IN  /\ Len(table) = 2 + m + n
             /\ table[1].txt = L_ColumnA /\ table[1].x = left
             /\ table[1].y = y1
             /\ table[2].txt = L_ColumnB /\ table[2].x = right
             /\ table[2].y = y1
             /\ \A i \in 0..(max(m, n) - 1) :
                  LET y == y1 - ((i + 1) * LH)
                      a == cells_at(table, left, y)
                      b == cells_at(table, right, y)
                  IN  /\ IF i < m
                         THEN \E c \in a : a = {c} /\ table[c].txt = q.col_a[i + 1]
                         ELSE a = {}
                      /\ IF i < n
                         THEN \E c \in b : b = {c} /\ table[c].txt = q.col_b[i + 1]
                         ELSE b = {}
             /\ cursor_y' = y1 - LH - (max(m, n) * LH) - 200]_vars

\* the smaller of two numbers
min(a, b) == IF a < b THEN a ELSE b

\* the text of option i (0-based) of a question laid out RTL or LTR: the
\* label (a)..(d) after or before the option
labelled(opt, i, rtl) ==
    IF rtl THEN opt \o <<32, 40, 97 + i, 41>> ELSE <<40, 97 + i, 41, 32>> \o opt

\* C14: the grid an MCQ has just drawn holds one primitive for each of the
\* first four options and nothing else; option i carries the i-th label,
\* after the text for an RTL question and before it otherwise; options 0
\* and 1 are on the first row, options 2 and 3 one line-height lower;
\* options 0 and 2 share a column, options 1 and 3 share the other, which
\* lies to the right for an LTR question and to the left for an RTL one.
C14_OptionGrid ==
    [][(QuestionDraw /\ sections[s_pos].questions[q_pos].type = T_MCQ) =>
         LET q == sections[s_pos].questions[q_pos]
             opts == q.options
             k == min(Len(opts), 4)
             rtl == process_text(q.text).is_urdu
             y1 == cursor_y - (Len(wrap(q.text)) * LH) - 100
             grid == SubSeq(ax', Len(ax) + 2 + Len(wrap(q.text)), Len(ax'))
             cell(i) == CHOOSE c \in 1..Len(grid) :
                           grid[c].txt = labelled(opts[i + 1], i, rtl)
         IN  /\ Len(grid) = k
             /\ \A i \in 0..(k - 1) :
                  /\ \E c \in 1..Len(grid) :
                        grid[c].txt = labelled(opts[i + 1], i, rtl)
                  /\ grid[cell(i)].y = y1 - ((i \div 2) * LH)
             /\ \A i \in 0..(k - 1) : \A j \in 0..(k - 1) :
                  /\ (i % 2 = j % 2) => grid[cell(i)].x = grid[cell(j)].x
                  /\ (i % 2 = 0 /\ j % 2 = 1) =>
                        IF rtl THEN grid[cell(j)].x < grid[cell(i)].x
                        ELSE grid[cell(j)].x > grid[cell(i)].x]_vars

\* some code point of the text lies in U+0600..U+06FF
has_rtl_code_point(txt) == \E i \in 1..Len(txt) : txt[i] \in 1536..1791

\* C15 as stated: process_text classifies the text of the call as RTL if
\* and only if it holds a code point in U+0600..U+06FF; the empty string
\* comes back untouched and not RTL.
C15_SubstringDetection ==
    call # <<>> =>
        LET r == process_text(call[2])
        IN  /\ r.is_urdu <=> has_rtl_code_point(call[2])
            /\ call[2] = <<>> => (r.txt = <<>> /\ ~r.shaped /\ ~r.is_urdu)

\* C15, amended: with the shaping libraries present process_text classifies
\* the text of the call as RTL if and only if it holds a code point in
\* U+0600..U+06FF; without them no text is RTL; a text that is not RTL, the
\* empty string among them, comes back untouched.
C15_DetectionWithLibrary ==
    call # <<>> =>
        LET r == process_text(call[2])
        IN  /\ r.is_urdu <=> (HAS_URDU_LIB /\ has_rtl_code_point(call[2]))
            /\ ~r.is_urdu => (r.txt = call[2] /\ ~r.shaped)
            /\ call[2] = <<>> => (r.txt = <<>> /\ ~r.shaped /\ ~r.is_urdu)

\* an Urdu letter between Latin letters, drawn as RTL text
C15_Witness ==
    /\ call # <<>>
    /\ call[2] = St_A \o St_U \o St_A
    /\ HAS_URDU_LIB
    /\ process_text(call[2]).is_urdu
    /\ ax[1].shaped

\* the advance of the cursor over an option grid laid out RTL or LTR
grid_advance(opts, rtl) == 0 - mcq_layout(opts, rtl, 0, 0).cursor_y

\* C16: over the option grid an MCQ has just drawn the cursor has moved,
\* from the first option row, by two line-heights plus a gap (so by no
\* less than two line-heights), and by as much as over a grid in the other
\* direction and over a grid without options.
C16_GridAdvance ==
    [][(QuestionDraw /\ sections[s_pos].questions[q_pos].type = T_MCQ) =>
         LET q == sections[s_pos].questions[q_pos]
             rtl == process_text(q.text).is_urdu
             y1 == cursor_y - (Len(wrap(q.text)) * LH) - 100
             advance == y1 - cursor_y'
         IN  /\ advance >= 2 * LH
             /\ advance = grid_advance(q.options, ~rtl)
             /\ advance = grid_advance(<<>>, rtl)]_vars

\* C17: an export starts with no page written; a space check either leaves
\* the pages, the figure and the cursor alone or appends the current figure
\* to the pages, starts an empty figure and puts the cursor at the page
\* top; drawing writes no page; the successful end appends the current
\* figure, for a document without sections the header block alone.
C17_PagesOnce ==
    [][/\ (pc = "idle" /\ pc' \notin {"idle", "failed"}) => pdf'.pages = <<>>
       /\ (SectionCheck \/ QuestionCheck) =>
             \/ pdf'.pages = pdf.pages /\ ax' = ax /\ cursor_y' = cursor_y
             \/ /\ pdf'.pages = Append(pdf.pages, ax)
                /\ ax' = <<>>
                /\ cursor_y' = page_top
                /\ pc' # "failed"
       /\ (SectionDraw \/ QuestionDraw) => pdf' = pdf
       /\ (Finish /\ pc' = "done") => pdf'.pages = Append(pdf.pages, ax)
       /\ (Finish /\ pc' = "failed") => pdf'.pages = pdf.pages
       /\ (Finish /\ pc' = "done" /\ sections = <<>>) =>
             pdf'.pages = <<header_draws(metadata, page_top)>>]_vars

\* the export of the document of section headers: one page break, two pages
C17_Witness ==
    /\ pc = "done"
    /\ Len(sections) = NumSections
    /\ Len(pdf.pages) = 2
    /\ pdf.pages[2] # <<>>

---------------------------------------------------------------------------
(* Claims about the question editor *)

\* the <<section, question>> slots (1-based) at which two documents of the
\* same shape differ
changed_slots(old, new) ==
    {sq \in (1..Len(old)) \X (1..MaxQuestions) :
        /\ sq[2] <= Len(old[sq[1]].questions)
        /\ old[sq[1]].questions[sq[2]] # new[sq[1]].questions[sq[2]]}

same_shape(old, new) ==
    /\ Len(old) = Len(new)
    /\ \A k \in 1..Len(old) :
          /\ old[k].name = new[k].name
          /\ Len(old[k].questions) = Len(new[k].questions)

\* C18: "Update Question" with a non-empty text, pressed while a question
\* is loaded for editing, performs the update (it does not index outside
\* the model, and the editor leaves edit mode), writes the edited question
\* into the slot the pointer names and changes no other question and no
\* section of the document as the tree shows it.
C18_UpdateReplacesLoaded ==
    [][\A f \in QForms :
         (/\ editing_q_ptr # None
          /\ strip(f.q_text) # <<>>
          /\ SaveQuestionInputFrom({f}))
         => LET r == sync_tree_to_model(tree, sections, cb_sections)
                slot == <<editing_q_ptr[1] + 1, editing_q_ptr[2] + 1>>
            IN  /\ r.ok
                /\ editing_q_ptr' = None
                /\ same_shape(r.sections, sections')
                /\ changed_slots(r.sections, sections') \subseteq {slot}
                /\ sections'[slot[1]].questions[slot[2]] = form_question(f)]_vars

\* the tree and the section selector show self.sections as it is: no drag
\* is waiting to be synced, the selector lists the sections in order
in_sync ==
    LET r == sync_tree_to_model(tree, sections, cb_sections) IN
    /\ r.ok
    /\ r.sections = sections
    /\ cb_sections.items = [k \in 1..Len(sections) |-> sections[k].name]

\* C19: "Add Question" pressed outside edit mode, tree and selector
\* showing the document as it is: with a non-empty text and a section
\* selected the question is appended to the selected section (the section
\* at the selector's current index) and nothing else changes; otherwise no
\* section changes.
C19_AppendToSelected ==
    [][\A f \in QForms :
         (/\ editing_q_ptr = None
          /\ in_sync
          /\ SaveQuestionInputFrom({f}))
         => LET q == form_question(f)
                sel == cb_sections.index
            IN  IF q.text # <<>> /\ sel >= 0
                THEN sections' =
                       [sections EXCEPT ![sel + 1].questions = Append(@, q)]
                ELSE sections' = sections]_vars

=============================================================================
